---------------------------- MODULE Spec2Model ----------------------------
(***************************************************************************)
(* Verification model of the player-comparison front end                   *)
(* (monte_carlo_fantasy_football): the distribution builders               *)
(* (parseHalfPPR, cdfPairsToPercentSeries, buildSeries, ecdfFromValues)    *)
(* and the series mergers (mergeSeries, chartData) of its revisions.       *)
(*                                                                         *)
(* Numbers.  A JavaScript number is modelled as an exact rational with the *)
(* common denominator YScale: the integer k stands for k / YScale.  YScale *)
(* is a multiple of 10 (so 0.1 and 0.5 are exact) and of every sample      *)
(* count up to MaxSamples (so (j + 1) / n * 100 is exact).  Rounding of    *)
(* IEEE doubles is not modelled.                                           *)
(***************************************************************************)
EXTENDS Integers, Sequences, FiniteSets, TLC

VARIABLES
    aSeries,    \* series of player A handed to the merger
    bSeries,    \* series of player B handed to the merger
    chartData,  \* merged rows
    revision,   \* which merger produced chartData ("none" before it ran)
    payload,    \* distribution payload handed to a builder
    series,     \* what the builder returned
    builder,    \* which builder produced series ("none" before it ran)
    windowWidth, \* viewport width in pixels
    xMin,       \* x-axis domain, lower end
    xMax,       \* x-axis domain, upper end (maxXValue)
    xTicks,     \* x-axis ticks (xAxisTicks)
    yMax,       \* y-axis domain, upper end (maxYValue)
    yTicks,     \* y-axis ticks (yAxisTicks)
    record,     \* projection record handed to the stat resolver
    rule,       \* include / exclude rule of one table row
    flat,       \* flattenObject(record)
    resolved,   \* resolveByRegexFlat(record, rule)
    tableValue, \* asNumberIfPossible(resolved)
    consentStored, \* localStorage 'analytics-consent': "absent", "true" or "false"
    showBanner, \* CookieConsent's showBanner
    gaInitialized, \* ReactGA.initialize was called in this load
    loads,      \* number of app loads so far
    hits,       \* what was handed to ReactGA.send / ReactGA.event, oldest first
    lastHandler, \* the handler that ran last
    playerA,    \* the selected id a ("" when none)
    playerB,    \* the selected id b
    projA,      \* the projection shown for side A ("null" or the id it was fetched for)
    projB,
    projErr,    \* "" or the error text
    loadingProj,
    requests    \* the runs of the load-projections effect that awaited a fetch

mergeVars == <<aSeries, bSeries, chartData, revision>>
builderVars == <<payload, series, builder>>
axisVars == <<windowWidth, xMin, xMax, xTicks, yMax, yTicks>>
resolverVars == <<record, rule, flat, resolved, tableValue>>

analyticsVars == <<consentStored, showBanner, gaInitialized, loads, hits, lastHandler>>
loaderVars == <<playerA, playerB, projA, projB, projErr, loadingProj, requests>>
appVars == <<analyticsVars, loaderVars>>

vars == <<mergeVars, builderVars, axisVars, resolverVars, appVars>>

-----------------------------------------------------------------------------
(* Bounds of the model *)

\* longest series handed to a merger
MaxPts == 2
\* longest array inside a distribution payload
MaxPairs == 2
\* longest raw sample list
MaxSamples == 4

-----------------------------------------------------------------------------
(* Numbers *)

RECURSIVE Factorial(_)
Factorial(n) == IF n <= 1 THEN 1 ELSE n * Factorial(n - 1)

YScale == 10 * Factorial(MaxSamples + 1)

\* the number k
Num(k) == k * YScale
\* the number k / 10
Tenths(k) == k * (YScale \div 10)

Max2(a, b) == IF a >= b THEN a ELSE b
Min2(a, b) == IF a <= b THEN a ELSE b

RECURSIVE SeqSum(_)
SeqSum(s) == IF s = <<>> THEN 0 ELSE Head(s) + SeqSum(Tail(s))

-----------------------------------------------------------------------------
(* An optional number: the value of one side of a merged row *)

Nil == [nil |-> TRUE, v |-> 0]
Some(y) == [nil |-> FALSE, v |-> y]

(* What a builder returns: a series, null, or a thrown TypeError *)
NullSeries == [tag |-> "null", pts |-> <<>>]
Thrown == [tag |-> "throw", pts |-> <<>>]
Series(pts) == [tag |-> "series", pts |-> pts]

\* (series || []) and the iteration of a non-null series
PtsOf(s) == IF s.tag = "series" THEN s.pts ELSE <<>>

-----------------------------------------------------------------------------
(* Array.prototype.sort with a numeric comparator: stable, ascending *)

\* insert e after every element whose key is <= key(e)
RECURSIVE InsertByKey(_, _, _)
InsertByKey(s, e, k) ==
    IF s = <<>> THEN <<e>>
    ELSE IF k[Head(s)] <= k[e] THEN <<Head(s)>> \o InsertByKey(Tail(s), e, k)
    ELSE <<e>> \o s

RECURSIVE SortByKey(_, _)
SortByKey(s, k) ==
    IF s = <<>> THEN <<>>
    ELSE InsertByKey(SortByKey(SubSeq(s, 1, Len(s) - 1), k), s[Len(s)], k)

SortByX(s) == SortByKey(s, [d \in {s[i] : i \in 1..Len(s)} |-> d.x])

\* Array.from(set).sort((a, b) => a - b)
RECURSIVE SortedFromSet(_)
SortedFromSet(S) ==
    IF S = {} THEN <<>>
    ELSE LET m == CHOOSE x \in S : \A z \in S : x <= z
         IN <<m>> \o SortedFromSet(S \ {m})

-----------------------------------------------------------------------------
(* Series mergers *)

\* stepLoop comparing with < instead of <=
RECURSIVE stepLoopStrict(_, _, _)
stepLoopStrict(pts, x, y) ==
    IF pts = <<>> THEN y
    ELSE IF Head(pts).x < x THEN stepLoopStrict(Tail(pts), x, Some(Head(pts).y))
    ELSE y

\* stepAt: the y of the last point scanned before the first point with d.x > x
RECURSIVE stepLoop(_, _, _)
stepLoop(pts, x, y) ==
    IF pts = <<>> THEN y
    ELSE IF Head(pts).x <= x THEN stepLoop(Tail(pts), x, Some(Head(pts).y))
    ELSE y

stepAt(s, x) ==
    IF s.tag # "series" \/ s.pts = <<>> THEN Nil
    ELSE stepLoop(s.pts, x, Nil)

\* the x of every point of both series
UnionXs(a, b) ==
    {PtsOf(a)[i].x : i \in 1..Len(PtsOf(a))} \cup {PtsOf(b)[i].x : i \in 1..Len(PtsOf(b))}

\* xVals.map((x) => ({ x, A: stepAt(seriesA, x), B: stepAt(seriesB, x) }))
StepRows(xVals, a, b) ==
    [i \in 1..Len(xVals) |->
        [x |-> xVals[i], A |-> stepAt(a, xVals[i]), B |-> stepAt(b, xVals[i])]]

\* mergeSeries of the half-PPR revisions
mergeSeriesStepHold(a, b) ==
    IF a.tag # "series" /\ b.tag # "series" THEN <<>>
    ELSE StepRows(SortedFromSet(UnionXs(a, b)), a, b)

\* aSeries?.find((d) => d.x === x)?.y ?? null
findAt(s, x) ==
    LET pts == PtsOf(s)
        hit == {i \in 1..Len(pts) : pts[i].x = x}
    IN IF hit = {} THEN Nil
       ELSE Some(pts[CHOOSE i \in hit : \A j \in hit : i <= j].y)

\* WindowXs without the d.x >= 0 test
WindowXsNoFloor(a, b, hi) == {x \in UnionXs(a, b) : x <= hi}

\* if (d.x >= 0 && d.x <= hi) xs.add(d.x)
WindowXs(a, b, hi) == {x \in UnionXs(a, b) : x >= 0 /\ x <= hi}

\* xVals.map((x) => ({ x, A: aSeries?.find(...)?.y ?? null, B: ... }))
FindRows(xVals, a, b) ==
    [i \in 1..Len(xVals) |->
        [x |-> xVals[i], A |-> findAt(a, xVals[i]), B |-> findAt(b, xVals[i])]]

\* point.A != null && point.A > 0.1
hasData(o) == ~o.nil /\ o.v > Tenths(1)

\* keepRow that asks both sides for data
keepRowBothSides(point) == hasData(point.A) /\ hasData(point.B)

keepRow(point) == hasData(point.A) \/ hasData(point.B)

\* mergeSeries of the scoring-format revision: window [0, 30], then the filter
mergeSeriesWindow(a, b) ==
    IF a.tag # "series" /\ b.tag # "series" THEN <<>>
    ELSE SelectSeq(FindRows(SortedFromSet(WindowXs(a, b, Num(30))), a, b), keepRow)

\* chartData of the earlier scoring-format revision: window [0, 26], no filter
chartDataWindow(a, b) ==
    IF a.tag # "series" /\ b.tag # "series" THEN <<>>
    ELSE FindRows(SortedFromSet(WindowXs(a, b, Num(26))), a, b)

-----------------------------------------------------------------------------
(* Variables a specification does not use keep these values *)

MergeIdle ==
    /\ aSeries = [tag |-> "null", pts |-> <<>>]
    /\ bSeries = [tag |-> "null", pts |-> <<>>]
    /\ chartData = <<>>
    /\ revision = "none"

BuilderIdle ==
    /\ payload = [tag |-> "null", pts |-> <<>>]
    /\ series = [tag |-> "null", pts |-> <<>>]
    /\ builder = "none"

AxisIdle ==
    /\ windowWidth = 0
    /\ xMin = 0
    /\ xMax = 0
    /\ xTicks = <<>>
    /\ yMax = 0
    /\ yTicks = <<>>

ResolverIdle ==
    /\ record = <<>>
    /\ rule = <<>>
    /\ flat = <<>>
    /\ resolved = <<>>
    /\ tableValue = <<>>

AnalyticsIdle ==
    /\ consentStored = "absent"
    /\ showBanner = FALSE
    /\ gaInitialized = FALSE
    /\ loads = 0
    /\ hits = <<>>
    /\ lastHandler = "none"

LoaderIdle ==
    /\ playerA = ""
    /\ playerB = ""
    /\ projA = "null"
    /\ projB = "null"
    /\ projErr = ""
    /\ loadingProj = FALSE
    /\ requests = <<>>

AppIdle == AnalyticsIdle /\ LoaderIdle

-----------------------------------------------------------------------------
(* Inputs of the mergers *)

MergeXs == {Num(-1), Num(0), Num(10), Num(28), Num(31)}
MergeYs == {Tenths(1), Num(50)}
MergePoints == [x : MergeXs, y : MergeYs]

IsSortedByX(pts) == \A i \in 1..(Len(pts) - 1) : pts[i].x <= pts[i + 1].x

SortedPts == {pts \in UNION {[1..n -> MergePoints] : n \in 0..MaxPts} : IsSortedByX(pts)}

MergeInputs == {NullSeries} \cup {Series(pts) : pts \in SortedPts}

InitMerge ==
    /\ aSeries \in MergeInputs
    /\ bSeries \in MergeInputs
    /\ chartData = <<>>
    /\ revision = "none"
    /\ payload = NullSeries
    /\ series = NullSeries
    /\ builder = "none"
    /\ AxisIdle
    /\ ResolverIdle
    /\ AppIdle

MergeStepHold ==
    /\ revision = "none"
    /\ chartData' = mergeSeriesStepHold(aSeries, bSeries)
    /\ revision' = "stephold"
    /\ UNCHANGED <<aSeries, bSeries, builderVars, axisVars, resolverVars, appVars>>

MergeWindow30 ==
    /\ revision = "none"
    /\ chartData' = mergeSeriesWindow(aSeries, bSeries)
    /\ revision' = "window30"
    /\ UNCHANGED <<aSeries, bSeries, builderVars, axisVars, resolverVars, appVars>>

MergeWindow26 ==
    /\ revision = "none"
    /\ chartData' = chartDataWindow(aSeries, bSeries)
    /\ revision' = "window26"
    /\ UNCHANGED <<aSeries, bSeries, builderVars, axisVars, resolverVars, appVars>>

-----------------------------------------------------------------------------
(* JavaScript values that reach the builders.  A string is the sequence of  *)
(* its characters; a "jsontext" is a string holding the JSON serialisation   *)
(* of doc.  An object holds the outcome coordinate under x (the key pts or   *)
(* x of the revision that reads it) and the probability coordinate under y   *)
(* (the key pct, cdf or y).                                                  *)

JNull == [t |-> "null", n |-> 0, s |-> <<>>]
JUndefined == [t |-> "undefined", n |-> 0, s |-> <<>>]
JNum(k) == [t |-> "number", n |-> k, s |-> <<>>]
JStr(chars) == [t |-> "string", n |-> 0, s |-> chars]
JObj(x, y) == [t |-> "object", x |-> x, y |-> y]
JArr(items) == [t |-> "array", items |-> items]
JText(doc) == [t |-> "jsontext", doc |-> doc]

\* the result of Number(v): a finite number, or NaN
Finite(k) == [fin |-> TRUE, n |-> k]
NaN == [fin |-> FALSE, n |-> 0]

Digits == <<"0", "1", "2", "3", "4", "5", "6", "7", "8", "9">>
IsDigit(c) == \E i \in 1..10 : Digits[i] = c
DigitVal(c) == (CHOOSE i \in 1..10 : Digits[i] = c) - 1

RECURSIVE DecimalValue(_)
DecimalValue(s) ==
    IF s = <<>> THEN 0
    ELSE 10 * DecimalValue(SubSeq(s, 1, Len(s) - 1)) + DigitVal(s[Len(s)])

\* String.prototype.trim
RECURSIVE Trim(_)
Trim(s) ==
    IF s = <<>> THEN s
    ELSE IF Head(s) = " " THEN Trim(Tail(s))
    ELSE IF s[Len(s)] = " " THEN Trim(SubSeq(s, 1, Len(s) - 1))
    ELSE s

\* v.replace(/,/g, "")
StripCommas(s) == SelectSeq(s, LAMBDA c : c # ",")

\* Number(string): blank is 0, a run of digits is its value, anything else NaN
StringToNumber(s) ==
    LET t == Trim(s)
    IN IF t = <<>> THEN Finite(0)
       ELSE IF \A i \in 1..Len(t) : IsDigit(t[i]) THEN Finite(Num(DecimalValue(t)))
       ELSE NaN

\* Number(v).  An array is converted through its join(","): the empty array
\* is "", a one-element array is the string of its element (null and
\* undefined give ""), a longer one holds a comma and is NaN.
RECURSIVE ToNumber(_)
ToNumber(v) ==
    CASE v.t = "number" -> Finite(v.n)
      [] v.t = "null" -> Finite(0)
      [] v.t = "string" -> StringToNumber(v.s)
      [] v.t = "array" ->
            IF v.items = <<>> THEN Finite(0)
            ELSE IF Len(v.items) > 1 THEN NaN
            ELSE IF v.items[1].t = "undefined" THEN Finite(0)
            ELSE ToNumber(v.items[1])
      [] OTHER -> NaN

\* !v
Falsy(v) ==
    \/ v.t \in {"null", "undefined"}
    \/ v.t = "string" /\ v.s = <<>>
    \/ v.t = "number" /\ v.n = 0

TypeOfString(v) == v.t \in {"string", "jsontext"}

\* JSON.parse: the document, or a SyntaxError
SyntaxError == [t |-> "SyntaxError", n |-> 0, s |-> <<>>]
JSONParse(v) ==
    IF v.t = "jsontext" THEN v.doc
    ELSE IF v.s # <<>> /\ \A i \in 1..Len(v.s) : IsDigit(v.s[i]) THEN JNum(Num(DecimalValue(v.s)))
    ELSE SyntaxError

\* reading a property of null or undefined raises a TypeError
ReadThrows(d) == d.t \in {"null", "undefined"}
PropX(d) == IF d.t = "object" THEN d.x ELSE JUndefined
PropY(d) == IF d.t = "object" THEN d.y ELSE JUndefined

\* arr.map((d) => ({ x: Number(d.x), y: Number(d.y) }))
\*    .filter((d) => Number.isFinite(d.x) && Number.isFinite(d.y))
IsFinitePair(d) == ToNumber(PropX(d)).fin /\ ToNumber(PropY(d)).fin
NumberPair(d) == [x |-> ToNumber(PropX(d)).n, y |-> ToNumber(PropY(d)).n]

FinitePairs(items) ==
    LET kept == SelectSeq(items, IsFinitePair)
    IN [i \in 1..Len(kept) |-> NumberPair(kept[i])]

\* Math.max(0, Math.min(100, y))
Clamp(y) == Max2(0, Min2(Num(100), y))

-----------------------------------------------------------------------------
(* Distribution builders *)

\* bins.every((b, i) => i === 0 || b.pct >= bins[i - 1].pct)
nonDecreasing(bins) == \A i \in 2..Len(bins) : bins[i].y >= bins[i - 1].y

\* cumulativeData that always takes the input for fractions
cumulativeDataAlwaysScaled(bins) ==
    [i \in 1..Len(bins) |-> [x |-> bins[i].x, y |-> Clamp(bins[i].y * 100)]]

\* the cumulative branch of parseHalfPPR
cumulativeData(bins) ==
    LET scale == IF bins[Len(bins)].y <= Num(1) THEN 100 ELSE 1
    IN [i \in 1..Len(bins) |-> [x |-> bins[i].x, y |-> Clamp(bins[i].y * scale)]]

\* massData that scales each mass without accumulating
massDataNoSum(bins) ==
    LET total == SeqSum([i \in 1..Len(bins) |-> bins[i].y])
        scale == IF total <= Num(1) THEN 100 ELSE 1
    IN [k \in 1..Len(bins) |-> [x |-> bins[k].x, y |-> Clamp(bins[k].y * scale)]]

\* the probability-mass branch of parseHalfPPR
massData(bins) ==
    LET total == SeqSum([i \in 1..Len(bins) |-> bins[i].y])
        scale == IF total <= Num(1) THEN 100 ELSE 1
        cum(k) == SeqSum([i \in 1..k |-> bins[i].y * scale])
    IN [k \in 1..Len(bins) |-> [x |-> bins[k].x, y |-> Clamp(cum(k))]]

parseHalfPPR(jsonStr) ==
    IF Falsy(jsonStr) \/ ~TypeOfString(jsonStr) THEN NullSeries
    ELSE LET arr == JSONParse(jsonStr)
         IN IF arr.t # "array" THEN NullSeries
            ELSE IF \E i \in 1..Len(arr.items) : ReadThrows(arr.items[i]) THEN Thrown
            ELSE LET bins == SortByX(FinitePairs(arr.items))
                 IN IF bins = <<>> THEN NullSeries
                    ELSE IF nonDecreasing(bins) THEN Series(cumulativeData(bins))
                    ELSE Series(massData(bins))

\* d.y <= 1 ? d.y * 100 : d.y, clamped
percentPoint(d) == [x |-> d.x, y |-> Clamp(IF d.y <= Num(1) THEN d.y * 100 ELSE d.y)]

cdfPairsToPercentSeries(arr) ==
    IF arr.t # "array" \/ arr.items = <<>> THEN NullSeries
    ELSE IF \E i \in 1..Len(arr.items) : ReadThrows(arr.items[i]) THEN Thrown
    ELSE LET sorted == SortByX(FinitePairs(arr.items))
             out == [i \in 1..Len(sorted) |-> percentPoint(sorted[i])]
         IN IF out # <<>> THEN Series(out) ELSE NullSeries

\* a projection record is the mapping of its keys; projection?.[chartKey]
ProjectionField(projection, key) ==
    IF key \in DOMAIN projection.fields THEN projection.fields[key] ELSE JUndefined

buildSeries(projection, chartKey) ==
    IF projection.t # "projection" THEN NullSeries
    ELSE LET data == ProjectionField(projection, chartKey)
         IN IF data.t # "array" \/ data.items = <<>> THEN NullSeries
            ELSE IF \E i \in 1..Len(data.items) : ReadThrows(data.items[i]) THEN Thrown
            ELSE LET out == SortByX(FinitePairs(data.items))
                 IN IF out # <<>> THEN Series(out) ELSE NullSeries

\* typeof v === "string" ? v.replace(/,/g, "").trim() : v, then Number
SampleNumber(v) == IF v.t = "string" THEN ToNumber(JStr(Trim(StripCommas(v.s)))) ELSE ToNumber(v)

SampleIsFinite(v) == SampleNumber(v).fin
SampleValue(v) == SampleNumber(v).n

\* runEnd that never advances: equal samples are not grouped
runEndNoGroup(nums, j) == j

\* last index of the run of nums[i]: while (j + 1 < n && nums[j + 1] === x) j++
RECURSIVE runEnd(_, _)
runEnd(nums, j) ==
    IF j + 1 <= Len(nums) /\ nums[j + 1] = nums[j] THEN runEnd(nums, j + 1) ELSE j

\* for (let i = 0; i < n; ) { ... out.push({ x, y: ((j + 1) / n) * 100 }); i = j + 1 }
RECURSIVE ecdfLoop(_, _)
ecdfLoop(nums, i) ==
    IF i > Len(nums) THEN <<>>
    ELSE LET j == runEnd(nums, i)
         IN <<[x |-> nums[i], y |-> (j * Num(100)) \div Len(nums)]>> \o ecdfLoop(nums, j + 1)

ecdfFromValues(values) ==
    IF values.t # "array" \/ values.items = <<>> THEN NullSeries
    ELSE LET finite == SelectSeq(values.items, SampleIsFinite)
             kept == [i \in 1..Len(finite) |-> SampleValue(finite[i])]
             nums == SortByKey(kept, [v \in {kept[i] : i \in 1..Len(kept)} |-> v])
         IN IF nums = <<>> THEN NullSeries ELSE Series(ecdfLoop(nums, 1))

-----------------------------------------------------------------------------
(* Inputs of the builders *)

CoordXs == {JUndefined, JNum(Num(0)), JNum(Num(5))}
CoordYs == {JUndefined, JNum(Tenths(-5)), JNum(Num(0)), JNum(Tenths(5)), JNum(Num(1)),
            JNum(Num(50)), JNum(Num(100)), JNum(Num(150))}
PairElements == {JNull, JNum(Num(5))} \cup {JObj(x, y) : x \in CoordXs, y \in CoordYs}

PairArrays == {JArr(items) : items \in UNION {[1..n -> PairElements] : n \in 0..MaxPairs}}

\* what JSON text can hold: null, a number, an array
JsonDocs == {JNull, JNum(Num(5))} \cup PairArrays

PairPayloads ==
    {JNull, JUndefined, JNum(Num(5)), JStr(<<>>), JStr(<<"a">>)}
        \cup PairArrays \cup {JText(doc) : doc \in JsonDocs}

SampleVals == {JNum(Num(1)), JNum(Num(2)), JNum(Num(3)), JNull, JUndefined,
               JStr(<<" ", "2">>), JStr(<<"1", ",", "0">>), JStr(<<"a">>)}

SamplePayloads ==
    {JNull} \cup {JArr(items) : items \in UNION {[1..n -> SampleVals] : n \in 0..MaxSamples}}

ChartKeys == {"chart_source_half_ppr", "chart_source_full_ppr", "chart_source_no_ppr"}

Projection(fields) == [t |-> "projection", fields |-> fields]

InitBuilder ==
    /\ payload \in PairPayloads
    /\ series = NullSeries
    /\ builder = "none"
    /\ aSeries = NullSeries
    /\ bSeries = NullSeries
    /\ chartData = <<>>
    /\ revision = "none"
    /\ AxisIdle
    /\ ResolverIdle
    /\ AppIdle

InitEcdf ==
    /\ payload \in SamplePayloads
    /\ series = NullSeries
    /\ builder = "none"
    /\ aSeries = NullSeries
    /\ bSeries = NullSeries
    /\ chartData = <<>>
    /\ revision = "none"
    /\ AxisIdle
    /\ ResolverIdle
    /\ AppIdle

ParseHalfPPR ==
    /\ builder = "none"
    /\ series' = parseHalfPPR(payload)
    /\ builder' = "parseHalfPPR"
    /\ UNCHANGED <<payload, mergeVars, axisVars, resolverVars, appVars>>

CdfPairsToPercentSeries ==
    /\ builder = "none"
    /\ series' = cdfPairsToPercentSeries(payload)
    /\ builder' = "cdfPairsToPercentSeries"
    /\ UNCHANGED <<payload, mergeVars, axisVars, resolverVars, appVars>>

BuildSeries ==
    /\ builder = "none"
    /\ \E chartKey \in ChartKeys :
          series' = buildSeries(Projection([k \in {chartKey} |-> payload]), chartKey)
    /\ builder' = "buildSeries"
    /\ UNCHANGED <<payload, mergeVars, axisVars, resolverVars, appVars>>

EcdfFromValues ==
    /\ builder = "none"
    /\ series' = ecdfFromValues(payload)
    /\ builder' = "ecdfFromValues"
    /\ UNCHANGED <<payload, mergeVars, axisVars, resolverVars, appVars>>

\* the raw-sample keys, in the order of the || chain
RawKeys == <<"raw_values_half_ppr", "samples_half_ppr", "total_score_half_ppr_samples",
             "raw_total_score_half_ppr">>

\* a || b
OrElse(a, b) == IF Falsy(a) THEN b ELSE a

rawCandidates(proj) ==
    OrElse(OrElse(OrElse(ProjectionField(proj, RawKeys[1]), ProjectionField(proj, RawKeys[2])),
                  ProjectionField(proj, RawKeys[3])),
           ProjectionField(proj, RawKeys[4]))

halfPprSeriesFromProjection(proj) ==
    IF proj.t # "projection" THEN NullSeries
    ELSE LET fromRaw == ecdfFromValues(rawCandidates(proj))
         IN IF fromRaw.tag = "series" /\ fromRaw.pts # <<>> THEN fromRaw
            ELSE cdfPairsToPercentSeries(ProjectionField(proj, "chart_source_half_ppr"))

RawFieldVals ==
    {JUndefined, JArr(<<>>), JArr(<<JStr(<<"a">>)>>),
     JArr(<<JNum(Num(1)), JNum(Num(1)), JNum(Num(2))>>), JArr(<<JNum(Num(3))>>)}

ChartFieldVals ==
    {JUndefined, JArr(<<>>), JArr(<<JNull>>), JArr(<<JObj(JUndefined, JNum(Num(50)))>>),
     JArr(<<JObj(JNum(Num(0)), JNum(Num(50))), JObj(JNum(Num(5)), JNum(Num(100)))>>)}

HalfPprFields(r1, r2, r3, r4, c) ==
    (RawKeys[1] :> r1) @@ (RawKeys[2] :> r2) @@ (RawKeys[3] :> r3) @@ (RawKeys[4] :> r4)
        @@ ("chart_source_half_ppr" :> c)

HalfPprProjections ==
    {JNull} \cup
    {Projection(HalfPprFields(r1, r2, r3, r4, c)) :
        r1 \in RawFieldVals, r2 \in RawFieldVals, r3 \in RawFieldVals, r4 \in RawFieldVals,
        c \in ChartFieldVals}

InitProjection ==
    /\ payload \in HalfPprProjections
    /\ series = NullSeries
    /\ builder = "none"
    /\ MergeIdle
    /\ AxisIdle
    /\ ResolverIdle
    /\ AppIdle

HalfPprSeriesFromProjection ==
    /\ builder = "none"
    /\ series' = halfPprSeriesFromProjection(payload)
    /\ builder' = "halfPprSeriesFromProjection"
    /\ UNCHANGED <<payload, mergeVars, axisVars, resolverVars, appVars>>

NextProjection == HalfPprSeriesFromProjection

SpecProjection == InitProjection /\ [][NextProjection]_vars

NextBuilder == ParseHalfPPR \/ CdfPairsToPercentSeries \/ BuildSeries \/ EcdfFromValues

SpecBuilder == InitBuilder /\ [][NextBuilder]_vars

NextEcdf == EcdfFromValues

SpecEcdf == InitEcdf /\ [][NextEcdf]_vars

NextMerge == MergeStepHold \/ MergeWindow30 \/ MergeWindow26

SpecMerge == InitMerge /\ [][NextMerge]_vars

-----------------------------------------------------------------------------
(* Axis planning of the chart.  App.jsx derives xMin / xMax / xTicks from   *)
(* the step-hold rows; the scoring-format revision derives maxXValue,       *)
(* maxYValue, yAxisTicks and xAxisTicks from the windowed rows and the      *)
(* viewport width.                                                          *)

\* Math.ceil(v / k) and Math.floor(v / k)
ceilOf(v, k) == Num(-((-v) \div (k * YScale)))
floorOf(v, k) == Num(v \div (k * YScale))

\* Math.max(...list) and Math.min(...list) of a non-empty list
MathMax(list) ==
    CHOOSE m \in {list[i] : i \in 1..Len(list)} : \A j \in 1..Len(list) : list[j] <= m

MathMin(list) ==
    CHOOSE m \in {list[i] : i \in 1..Len(list)} : \A j \in 1..Len(list) : m <= list[j]

\* for (let t = lo; t <= hi; t += step) out.push(t)
RECURSIVE tickLoop(_, _, _)
tickLoop(t, hi, step) ==
    IF t > hi THEN <<>> ELSE <<t>> \o tickLoop(t + step, hi, step)

ticks5(min, max) == tickLoop(5 * floorOf(min, 5), 5 * ceilOf(max, 5), Num(5))

\* const { xMin, xMax, xTicks } = useMemo(...) of App.jsx
xAxisOfRows(rows) ==
    IF rows = <<>> THEN [xMin |-> Num(0), xMax |-> Num(0), xTicks |-> <<>>]
    ELSE LET xs == [i \in 1..Len(rows) |-> rows[i].x]
             min == MathMin(xs)
             max == MathMax(xs)
         IN [xMin |-> 5 * floorOf(min, 5), xMax |-> 5 * ceilOf(max, 5),
             xTicks |-> ticks5(min, max)]

\* for (const point of chartData) if ((hasDataA || hasDataB) && point.x > maxMeaningfulX) ...
RECURSIVE maxMeaningfulLoop(_, _, _)
maxMeaningfulLoop(rows, i, maxMeaningfulX) ==
    IF i > Len(rows) THEN maxMeaningfulX
    ELSE maxMeaningfulLoop(rows, i + 1,
            IF keepRow(rows[i]) /\ rows[i].x > maxMeaningfulX THEN rows[i].x
            ELSE maxMeaningfulX)

\* maxXValue capped at the 26 of the empty chart
maxXValueCap26(rows) ==
    IF rows = <<>> THEN Num(26)
    ELSE Min2(2 * ceilOf(maxMeaningfulLoop(rows, 1, Num(0)) + Num(2), 2), Num(26))

\* maxXValue without the buffer of 2
maxXValueNoBuffer(rows) ==
    IF rows = <<>> THEN Num(26)
    ELSE Min2(2 * ceilOf(maxMeaningfulLoop(rows, 1, Num(0)), 2), Num(30))

maxXValue(rows) ==
    IF rows = <<>> THEN Num(26)
    ELSE LET buffered == maxMeaningfulLoop(rows, 1, Num(0)) + Num(2)
             calculated == 2 * ceilOf(buffered, 2)
         IN Min2(calculated, Num(30))

\* d.A ?? 0
orZero(o) == IF o.nil THEN Num(0) ELSE o.v

\* maxYValue rounding down to the multiple of 10
maxYValueFloor(rows) ==
    IF rows = <<>> THEN Num(20)
    ELSE LET maxVal == Max2(MathMax([i \in 1..Len(rows) |-> orZero(rows[i].A)]),
                            MathMax([i \in 1..Len(rows) |-> orZero(rows[i].B)]))
         IN IF maxVal > Num(20) THEN 10 * floorOf(maxVal, 10) ELSE Num(20)

maxYValue(rows) ==
    IF rows = <<>> THEN Num(20)
    ELSE LET maxA == MathMax([i \in 1..Len(rows) |-> orZero(rows[i].A)])
             maxB == MathMax([i \in 1..Len(rows) |-> orZero(rows[i].B)])
             maxVal == Max2(maxA, maxB)
         IN IF maxVal > Num(20) THEN 10 * ceilOf(maxVal, 10) ELSE Num(20)

yAxisTicks(maxY) == tickLoop(Num(0), maxY, Num(2))

\* the interval of the viewport width class
tickInterval(width, maxX) ==
    IF width < 480 THEN Max2(Num(6), ceilOf(maxX, 5))
    ELSE IF width < 768 THEN Max2(Num(4), ceilOf(maxX, 7))
    ELSE Num(2)

\* xAxisTicks without the push of the maximum
xAxisTicksNoPush(width, maxX) == tickLoop(Num(0), maxX, tickInterval(width, maxX))

xAxisTicks(width, maxX) ==
    LET ticks == tickLoop(Num(0), maxX, tickInterval(width, maxX))
    IN IF ticks = <<>> \/ ticks[Len(ticks)] # maxX THEN Append(ticks, maxX) ELSE ticks

AxisXs == {Num(-3), Tenths(75), Num(28), Num(31)}
AxisYs == {Tenths(1), Num(20), Tenths(205), Num(50)}
AxisPoints == {[x |-> x, y |-> y] : x \in AxisXs, y \in AxisYs}
AxisSeriesA ==
    {NullSeries} \cup
    {Series(pts) : pts \in {q \in UNION {[1..n -> AxisPoints] : n \in 0..MaxPts} : IsSortedByX(q)}}
AxisSeriesB == {NullSeries} \cup {Series(<<pt>>) : pt \in AxisPoints}
Widths == {479, 480, 767, 768}

InitAxis ==
    /\ aSeries \in AxisSeriesA
    /\ bSeries \in AxisSeriesB
    /\ chartData = <<>>
    /\ revision = "none"
    /\ windowWidth \in Widths
    /\ xMin = 0
    /\ xMax = 0
    /\ xTicks = <<>>
    /\ yMax = 0
    /\ yTicks = <<>>
    /\ BuilderIdle
    /\ ResolverIdle
    /\ AppIdle

\* one render of App.jsx: merged rows, x domain and ticks; the y domain is [0, 100]
RenderStepHold ==
    /\ revision = "none"
    /\ LET rows == mergeSeriesStepHold(aSeries, bSeries)
       IN /\ chartData' = rows
          /\ xMin' = xAxisOfRows(rows).xMin
          /\ xMax' = xAxisOfRows(rows).xMax
          /\ xTicks' = xAxisOfRows(rows).xTicks
    /\ yMax' = Num(100)
    /\ yTicks' = <<>>
    /\ revision' = "stephold"
    /\ UNCHANGED <<aSeries, bSeries, windowWidth, builderVars, resolverVars, appVars>>

\* one render of the scoring-format revision
RenderWindow30 ==
    /\ revision = "none"
    /\ LET rows == mergeSeriesWindow(aSeries, bSeries)
       IN /\ chartData' = rows
          /\ xMin' = Num(0)
          /\ xMax' = maxXValue(rows)
          /\ xTicks' = xAxisTicks(windowWidth, maxXValue(rows))
          /\ yMax' = maxYValue(rows)
          /\ yTicks' = yAxisTicks(maxYValue(rows))
    /\ revision' = "window30"
    /\ UNCHANGED <<aSeries, bSeries, windowWidth, builderVars, resolverVars, appVars>>

\* handleResize, and the re-render it causes
HandleResize ==
    /\ revision = "window30"
    /\ \E w \in Widths :
          /\ w # windowWidth
          /\ windowWidth' = w
          /\ xTicks' = xAxisTicks(w, xMax)
    /\ UNCHANGED <<mergeVars, xMin, xMax, yMax, yTicks, builderVars, resolverVars, appVars>>

NextAxis == RenderStepHold \/ RenderWindow30 \/ HandleResize

SpecAxis == InitAxis /\ [][NextAxis]_vars

-----------------------------------------------------------------------------
(* Flattener and stat resolver.  A plain object is the list of its entries  *)
(* in Object.entries order; a key is the sequence of its characters; the    *)
(* flattened map is a list of entries with distinct keys, in insertion      *)
(* order.  A regular expression of the rules is a list of alternatives,     *)
(* each a literal with an optional ^ and an optional $.                     *)

JRec(entries) == [t |-> "record", entries |-> entries]
Entry(k, v) == [k |-> k, v |-> v]

\* typeof v
typeOf(v) ==
    CASE v.t \in {"null", "object", "array", "record"} -> "object"
      [] v.t = "jsontext" -> "string"
      [] OTHER -> v.t

\* Array.isArray(v)
isArray(v) == v.t = "array"

\* Object.entries(obj): an array lists its indices as keys
entriesOf(obj) ==
    IF obj.t = "array" THEN [i \in 1..Len(obj.items) |-> Entry(<<Digits[i]>>, obj.items[i])]
    ELSE obj.entries

\* out[key] = v
Put(out, key, v) ==
    IF \E i \in 1..Len(out) : out[i].k = key
    THEN [i \in 1..Len(out) |-> IF out[i].k = key THEN Entry(key, v) ELSE out[i]]
    ELSE Append(out, Entry(key, v))

RECURSIVE flattenObject(_, _, _)
RECURSIVE flattenEntries(_, _, _, _)

\* for (const [k, v] of Object.entries(obj)) ...
flattenEntries(entries, i, base, out) ==
    IF i > Len(entries) THEN out
    ELSE LET key == base \o entries[i].k
             v == entries[i].v
         IN flattenEntries(entries, i + 1, base,
                IF ~Falsy(v) /\ typeOf(v) = "object" /\ ~isArray(v)
                THEN flattenObject(v, key, out)
                ELSE Put(out, key, v))

flattenObject(obj, prefix, out) ==
    IF obj.t \in {"null", "undefined"} THEN out
    ELSE IF typeOf(obj) # "object" THEN Put(out, prefix, obj)
    ELSE LET base == IF prefix # <<>> THEN prefix \o <<".">> ELSE <<>>
         IN flattenEntries(entriesOf(obj), 1, base, out)

\* k.toLowerCase()
lowerChar(c) == CASE c = "T" -> "t" [] c = "D" -> "d" [] c = "A" -> "a" [] OTHER -> c
toLowerCase(k) == [i \in 1..Len(k) |-> lowerChar(k[i])]

\* one alternative of a regular expression, tested against key
altMatches(alt, key) ==
    \E i \in 1..(Len(key) + 1) :
        /\ i + Len(alt.lit) - 1 <= Len(key)
        /\ SubSeq(key, i, i + Len(alt.lit) - 1) = alt.lit
        /\ alt.start => i = 1
        /\ alt.end => i + Len(alt.lit) - 1 = Len(key)

\* re.test(key)
test(re, key) == \E a \in 1..Len(re) : altMatches(re[a], key)

\* const isScalar = (v) => v == null || ["string", "number", "boolean"].includes(typeof v)
isScalar(v) == v.t \in {"null", "undefined"} \/ typeOf(v) \in {"string", "number", "boolean"}

NoBest == [some |-> FALSE, k |-> <<>>, val |-> JUndefined, score |-> 0]

\* the filter of resolveByRegexFlat without the exclude patterns
passesIncludeOnly(rules, key) == \A p \in 1..Len(rules.include) : test(rules.include[p], key)

\* include.every((re) => re.test(key)) && !exclude.some((re) => re.test(key))
passes(rules, key) ==
    /\ \A p \in 1..Len(rules.include) : test(rules.include[p], key)
    /\ ~\E p \in 1..Len(rules.exclude) : test(rules.exclude[p], key)

\* resolveLoopLastWins that lets a later candidate of equal score replace the best
RECURSIVE resolveLoopLastWins(_, _, _, _)
resolveLoopLastWins(flatMap, i, rules, best) ==
    IF i > Len(flatMap) THEN best
    ELSE LET key == toLowerCase(flatMap[i].k)
             val == flatMap[i].v
             score == (IF isScalar(val) THEN 2 ELSE 0) + Len(rules.include)
         IN resolveLoopLastWins(flatMap, i + 1, rules,
                IF ~passes(rules, key) THEN best
                ELSE IF ~best.some \/ score >= best.score
                     THEN [some |-> TRUE, k |-> flatMap[i].k, val |-> val, score |-> score]
                     ELSE best)

\* for (const k of Object.keys(flat)) ...
RECURSIVE resolveLoop(_, _, _, _)
resolveLoop(flatMap, i, rules, best) ==
    IF i > Len(flatMap) THEN best
    ELSE LET key == toLowerCase(flatMap[i].k)
             val == flatMap[i].v
             score == (IF isScalar(val) THEN 2 ELSE 0) + Len(rules.include)
         IN resolveLoop(flatMap, i + 1, rules,
                IF ~passes(rules, key) THEN best
                ELSE IF ~best.some \/ score > best.score
                     THEN [some |-> TRUE, k |-> flatMap[i].k, val |-> val, score |-> score]
                     ELSE best)

resolveByRegexFlat(obj, rules) ==
    IF Falsy(obj) \/ typeOf(obj) # "object" THEN JUndefined
    ELSE LET best == resolveLoop(flattenObject(obj, <<>>, <<>>), 1, rules, NoBest)
         IN IF best.some THEN best.val ELSE JUndefined

asNumberIfPossible(v) ==
    IF v.t \in {"null", "undefined"} THEN v
    ELSE LET n == ToNumber(v)
         IN IF n.fin THEN JNum(n.n) ELSE v

\* the entries of one object: at most MaxEntries of them
MaxEntries == 2

TopKeys == {<<"t", "d">>, <<"a">>, <<"a", ".", "t", "d">>, <<>>}
InnerKeys == {<<"t", "d">>, <<"T", "D">>}
TopLeaves ==
    {JNum(Num(1)), JStr(<<>>), JStr(<<"x">>), JStr(<<"1">>), JNull, JArr(<<JNum(Num(3))>>)}
InnerLeaves == {JNum(Num(2)), JNull, JArr(<<JNum(Num(3))>>)}
InnerRecords ==
    {JRec(<<>>)} \cup {JRec(<<Entry(k, v)>>) : k \in InnerKeys, v \in InnerLeaves}
DeepRecord == JRec(<<Entry(<<"a">>, JRec(<<Entry(<<"t", "d">>, JNum(Num(2)))>>))>>)
TopValues == TopLeaves \cup InnerRecords \cup {DeepRecord}

DistinctKeys(entries) ==
    \A i, j \in 1..Len(entries) : entries[i].k = entries[j].k => i = j

TopEntries == {Entry(k, v) : k \in TopKeys, v \in TopValues}

Records ==
    {JNull, JStr(<<"x">>), JArr(<<JNum(Num(1))>>)} \cup
    {JRec(es) : es \in {q \in UNION {[1..n -> TopEntries] : n \in 0..MaxEntries} :
                            DistinctKeys(q)}}

Lit(chars) == [lit |-> chars, start |-> FALSE, end |-> FALSE]
Exact(chars) == [lit |-> chars, start |-> TRUE, end |-> TRUE]
Starts(chars) == [lit |-> chars, start |-> TRUE, end |-> FALSE]

Rule(include, exclude) == [t |-> "rule", include |-> include, exclude |-> exclude]
NoRule == [t |-> "none", include |-> <<>>, exclude |-> <<>>]

\* /td/, /^td$/, /a/, /^a/, /x|^a$/ and /q/
Rules ==
    {Rule(<<>>, <<>>),
     Rule(<< <<Lit(<<"t", "d">>)>> >>, <<>>),
     Rule(<< <<Lit(<<"t", "d">>)>> >>, << <<Starts(<<"a">>)>> >>),
     Rule(<< <<Lit(<<"a">>)>>, <<Lit(<<"t", "d">>)>> >>, <<>>),
     Rule(<< <<Exact(<<"t", "d">>)>> >>, << <<Lit(<<"x">>), Exact(<<"a">>)>> >>),
     Rule(<< <<Lit(<<"q">>)>> >>, <<>>)}

InitResolver ==
    /\ record \in Records
    /\ rule = NoRule
    /\ flat = <<>>
    /\ resolved = JUndefined
    /\ tableValue = JUndefined
    /\ MergeIdle
    /\ BuilderIdle
    /\ AxisIdle
    /\ AppIdle

\* one row of the stat table: asNumberIfPossible(resolveByRegexFlat(proj, rules)),
\* and the flattened projection of the same render
ResolveRow ==
    /\ rule.t = "none"
    /\ \E r \in Rules :
          /\ rule' = r
          /\ resolved' = resolveByRegexFlat(record, r)
          /\ tableValue' = asNumberIfPossible(resolved')
    /\ flat' = flattenObject(record, <<>>, <<>>)
    /\ UNCHANGED <<record, mergeVars, builderVars, axisVars, appVars>>

NextResolver == ResolveRow

SpecResolver == InitResolver /\ [][NextResolver]_vars

-----------------------------------------------------------------------------
(* Analytics and the consent banner.  localStorage outlives a load; the     *)
(* component state does not.  A hit is one call of ReactGA.send or          *)
(* ReactGA.event, with the load it was made in and the stored consent at    *)
(* the moment of the call.                                                   *)

MaxLoads == 3
MaxHits == 4

\* hasConsent that only asks whether the user declined, as initGA does
hasConsentUnlessDeclined(stored) == stored # "false"

\* localStorage.getItem('analytics-consent') === 'true'
hasConsent(stored) == stored = "true"

Hit(kind, load, stored) == [kind |-> kind, load |-> load, consent |-> stored]

trackPageView(stored, load) ==
    IF ~hasConsent(stored) THEN <<>> ELSE <<Hit("pageview", load, stored)>>

trackEvent(stored, load, category) ==
    IF ~hasConsent(stored) THEN <<>> ELSE <<Hit(category, load, stored)>>

\* trackEvent('Player Comparison', ...) and then ReactGA.event({... player_a, player_b ...})
trackPlayerComparison(stored, load) ==
    IF ~hasConsent(stored) THEN <<>>
    ELSE trackEvent(stored, load, "Player Comparison")
            \o <<Hit("Player Comparison (players)", load, stored)>>

trackPlayerSelection(stored, load) ==
    IF ~hasConsent(stored) THEN <<>> ELSE trackEvent(stored, load, "Player Selection")

trackScoringFormatChange(stored, load) ==
    IF ~hasConsent(stored) THEN <<>> ELSE trackEvent(stored, load, "Scoring Format")

\* initGA: ReactGA.initialize unless the stored value is 'false'
initGA(stored) == stored # "false"

\* the banner asks again unless the user accepted
bannerUnlessAccepted(stored) == stored # "true"

\* CookieConsent's mount effect: if (!hasConsented) setShowBanner(true)
bannerOnMount(stored) == stored = "absent"

InitAnalytics ==
    /\ consentStored = "absent"
    /\ showBanner = FALSE
    /\ gaInitialized = FALSE
    /\ loads = 0
    /\ hits = <<>>
    /\ lastHandler = "none"
    /\ MergeIdle
    /\ BuilderIdle
    /\ AxisIdle
    /\ ResolverIdle
    /\ LoaderIdle

\* one app load: initGA, the mount of App and CookieConsent, and the page
\* view effect, whose import() of the already loaded module resolves before
\* any user event
LoadApp ==
    /\ loads < MaxLoads
    /\ loads' = loads + 1
    /\ gaInitialized' = initGA(consentStored)
    /\ showBanner' = bannerOnMount(consentStored)
    /\ hits' = hits \o trackPageView(consentStored, loads + 1)
    /\ lastHandler' = "load"
    /\ UNCHANGED <<consentStored, mergeVars, builderVars, axisVars, resolverVars, loaderVars>>

HandleAccept ==
    /\ loads > 0
    /\ showBanner
    /\ consentStored' = "true"
    /\ showBanner' = FALSE
    /\ lastHandler' = "handleAccept"
    /\ UNCHANGED <<gaInitialized, loads, hits, mergeVars, builderVars, axisVars, resolverVars,
                   loaderVars>>

HandleDecline ==
    /\ loads > 0
    /\ showBanner
    /\ consentStored' = "false"
    /\ showBanner' = FALSE
    /\ lastHandler' = "handleDecline"
    /\ UNCHANGED <<gaInitialized, loads, hits, mergeVars, builderVars, axisVars, resolverVars,
                   loaderVars>>

\* the user picks a player
SelectPlayer ==
    /\ loads > 0
    /\ Len(hits) < MaxHits
    /\ hits' = hits \o trackPlayerSelection(consentStored, loads)
    /\ lastHandler' = "selectPlayer"
    /\ UNCHANGED <<consentStored, showBanner, gaInitialized, loads, mergeVars, builderVars,
                   axisVars, resolverVars, loaderVars>>

\* the user picks another scoring format
ChangeScoringFormat ==
    /\ loads > 0
    /\ Len(hits) < MaxHits
    /\ hits' = hits \o trackScoringFormatChange(consentStored, loads)
    /\ lastHandler' = "changeScoringFormat"
    /\ UNCHANGED <<consentStored, showBanner, gaInitialized, loads, mergeVars, builderVars,
                   axisVars, resolverVars, loaderVars>>

\* both projections arrived
ComparePlayers ==
    /\ loads > 0
    /\ Len(hits) < MaxHits
    /\ hits' = hits \o trackPlayerComparison(consentStored, loads)
    /\ lastHandler' = "comparePlayers"
    /\ UNCHANGED <<consentStored, showBanner, gaInitialized, loads, mergeVars, builderVars,
                   axisVars, resolverVars, loaderVars>>

NextAnalytics ==
    \/ LoadApp
    \/ HandleAccept
    \/ HandleDecline
    \/ SelectPlayer
    \/ ChangeScoringFormat
    \/ ComparePlayers

SpecAnalytics == InitAnalytics /\ [][NextAnalytics]_vars

-----------------------------------------------------------------------------
(* The load-projections effect.  A request is one run of the effect that    *)
(* reached the await: the ids it fetched, its own ignore flag, and, once    *)
(* settled, whether Promise.all fulfilled and with what.  A projection is   *)
(* written as the id it belongs to, null as "null".                         *)

MaxRequests == 3

PlayerIds == {"p1", "p2"}
Selections == {""} \cup PlayerIds

Request(idA, idB) ==
    [a |-> idA, b |-> idB, ignore |-> FALSE, status |-> "pending",
     pA |-> "none", pB |-> "none"]

\* what fetchProjection(id) may resolve to: the projection, or null for an
\* empty array; an unselected side is Promise.resolve(null)
Responses(id) == IF id = "" THEN {"null"} ELSE {id, "null"}

\* the cleanup of the previous run: ignore = true
cleanup(reqs) == [i \in DOMAIN reqs |-> [reqs[i] EXCEPT !.ignore = TRUE]]

\* a completion that writes whatever the ignore flag says
appliesAlways(req) == TRUE

\* if (ignore) return / if (!ignore) ...
applies(req) == ~req.ignore

\* the effect, re-run with the selection (idA, idB): cleanup of the previous
\* run, then the body up to the await
LoadProjections(idA, idB) ==
    IF idA = "" /\ idB = ""
    THEN /\ projA' = "null"
         /\ projB' = "null"
         /\ requests' = cleanup(requests)
         /\ UNCHANGED <<loadingProj, projErr>>
    ELSE /\ Len(requests) < MaxRequests
         /\ loadingProj' = TRUE
         /\ projErr' = ""
         /\ requests' = Append(cleanup(requests), Request(idA, idB))
         /\ UNCHANGED <<projA, projB>>

InitLoader ==
    /\ playerA = ""
    /\ playerB = ""
    /\ projA = "null"
    /\ projB = "null"
    /\ projErr = ""
    /\ loadingProj = FALSE
    /\ requests = <<>>
    /\ MergeIdle
    /\ BuilderIdle
    /\ AxisIdle
    /\ ResolverIdle
    /\ AnalyticsIdle

\* the players arrived: the first two are selected, once, before the user
\* can pick anything
AutoSelect ==
    /\ playerA = ""
    /\ playerB = ""
    /\ requests = <<>>
    /\ playerA' = "p1"
    /\ playerB' = "p2"
    /\ LoadProjections("p1", "p2")
    /\ UNCHANGED <<mergeVars, builderVars, axisVars, resolverVars, analyticsVars>>

SetA ==
    \E v \in Selections :
        /\ v # playerA
        /\ playerA' = v
        /\ LoadProjections(v, playerB)
        /\ UNCHANGED <<playerB, mergeVars, builderVars, axisVars, resolverVars, analyticsVars>>

SetB ==
    \E v \in Selections :
        /\ v # playerB
        /\ playerB' = v
        /\ LoadProjections(playerA, v)
        /\ UNCHANGED <<playerA, mergeVars, builderVars, axisVars, resolverVars, analyticsVars>>

\* another dependency of the effect changed (players, scoringFormat)
RerunEffect ==
    /\ requests # <<>>
    /\ LoadProjections(playerA, playerB)
    /\ UNCHANGED <<playerA, playerB, mergeVars, builderVars, axisVars, resolverVars,
                   analyticsVars>>

\* Promise.all fulfils
CompleteOk ==
    \E r \in DOMAIN requests :
        /\ requests[r].status = "pending"
        /\ \E rA \in Responses(requests[r].a), rB \in Responses(requests[r].b) :
              /\ requests' = [requests EXCEPT ![r].status = "ok", ![r].pA = rA, ![r].pB = rB]
              /\ IF applies(requests[r])
                 THEN /\ projA' = rA
                      /\ projB' = rB
                      /\ loadingProj' = FALSE
                 ELSE UNCHANGED <<projA, projB, loadingProj>>
        /\ UNCHANGED <<playerA, playerB, projErr, mergeVars, builderVars, axisVars,
                       resolverVars, analyticsVars>>

\* Promise.all rejects
CompleteFail ==
    \E r \in DOMAIN requests :
        /\ requests[r].status = "pending"
        /\ requests' = [requests EXCEPT ![r].status = "failed"]
        /\ IF applies(requests[r])
           THEN /\ projErr' = "Could not load projections"
                /\ loadingProj' = FALSE
           ELSE UNCHANGED <<projErr, loadingProj>>
        /\ UNCHANGED <<playerA, playerB, projA, projB, mergeVars, builderVars, axisVars,
                       resolverVars, analyticsVars>>

NextLoader ==
    \/ AutoSelect
    \/ SetA
    \/ SetB
    \/ RerunEffect
    \/ CompleteOk
    \/ CompleteFail

SpecLoader == InitLoader /\ [][NextLoader]_vars

-----------------------------------------------------------------------------
(* Properties of the mergers (SpecMerge) *)

Rows == 1..Len(chartData)

\* the y of the last point of s with x <= the given x, or null
LastAtOrBefore(s, x) ==
    LET pts == PtsOf(s)
        idx == {i \in 1..Len(pts) : pts[i].x <= x}
    IN IF idx = {} THEN Nil
       ELSE Some(pts[CHOOSE i \in idx : \A j \in idx : j <= i].y)

HasPointAt(s, x) == \E i \in 1..Len(PtsOf(s)) : PtsOf(s)[i].x = x

StrictlyAscendingX(pts) == \A i \in 1..(Len(pts) - 1) : pts[i].x < pts[i + 1].x

\* C1: the step-hold merger returns one row per distinct x of either series,
\* in ascending x, and each side of a row holds the y of the last point of
\* its series at or before the row's x, or null when there is none.
C1_StepHoldMerge ==
    revision = "stephold" =>
        /\ {chartData[i].x : i \in Rows} = UnionXs(aSeries, bSeries)
        /\ Len(chartData) = Cardinality(UnionXs(aSeries, bSeries))
        /\ \A i \in Rows : i < Len(chartData) => chartData[i].x < chartData[i + 1].x
        /\ \A i \in Rows :
              /\ chartData[i].A = LastAtOrBefore(aSeries, chartData[i].x)
              /\ chartData[i].B = LastAtOrBefore(bSeries, chartData[i].x)

\* a row whose A is carried forward from an earlier point, and a row whose B
\* is null because B starts later
C1_Witness ==
    /\ revision = "stephold"
    /\ \E i \in Rows : ~chartData[i].A.nil /\ ~HasPointAt(aSeries, chartData[i].x)
    /\ \E i \in Rows : chartData[i].B.nil /\ bSeries.tag = "series" /\ bSeries.pts # <<>>

\* C2: in the windowed mergers each side of every row holds the y of the
\* latest point of its series at or before the row's x, and is null only
\* when the series has no such point (stated for series of distinct x whose
\* points all lie inside both windows).
C2_WindowedCarriesForward ==
    (/\ revision \in {"window30", "window26"}
     /\ StrictlyAscendingX(PtsOf(aSeries))
     /\ StrictlyAscendingX(PtsOf(bSeries))
     /\ \A x \in UnionXs(aSeries, bSeries) : x >= 0 /\ x <= Num(26)) =>
        \A i \in Rows :
            /\ chartData[i].A = LastAtOrBefore(aSeries, chartData[i].x)
            /\ chartData[i].B = LastAtOrBefore(bSeries, chartData[i].x)

\* C3: every row of a windowed merger has its x inside the window.
C3_WindowedRowsInsideWindow ==
    /\ revision = "window30" =>
          \A i \in Rows : chartData[i].x >= 0 /\ chartData[i].x <= Num(30)
    /\ revision = "window26" =>
          \A i \in Rows : chartData[i].x >= 0 /\ chartData[i].x <= Num(26)

\* rows were returned although a series holds non-negligible points on both
\* sides outside the window
C3_Witness ==
    /\ revision = "window30"
    /\ chartData # <<>>
    /\ \E i \in 1..Len(PtsOf(aSeries)) :
          aSeries.pts[i].x > Num(30) /\ aSeries.pts[i].y > Tenths(1)
    /\ \E i \in 1..Len(PtsOf(bSeries)) :
          bSeries.pts[i].x < 0 /\ bSeries.pts[i].y > Tenths(1)

-----------------------------------------------------------------------------
(* Properties of the raw-sample ECDF (SpecEcdf) *)

SampleItems == IF payload.t = "array" THEN payload.items ELSE <<>>

\* the samples that are finite numbers after the numeric coercion of the code
FiniteSamples == {k \in 1..Len(SampleItems) : SampleIsFinite(SampleItems[k])}

SamplesUpTo(v) == {k \in FiniteSamples : SampleValue(SampleItems[k]) <= v}

-----------------------------------------------------------------------------
(* Properties of the builders of binned arrays (SpecBuilder) *)

\* the array the builder that ran was given, in the form it accepts: JSON
\* text for parseHalfPPR, an array for the others
GivenItems ==
    IF builder = "parseHalfPPR"
    THEN IF payload.t = "jsontext" /\ payload.doc.t = "array" THEN payload.doc.items ELSE <<>>
    ELSE IF payload.t = "array" THEN payload.items ELSE <<>>

\* every element is a pair of two numbers
AllNumberPairs(items) ==
    \A i \in 1..Len(items) :
        items[i].t = "object" /\ items[i].x.t = "number" /\ items[i].y.t = "number"

GivenPoints == [i \in 1..Len(GivenItems) |-> [x |-> GivenItems[i].x.n, y |-> GivenItems[i].y.n]]

\* strictly increasing x, strictly increasing cumulative percentages in [0, 100]
IsCumulativePercentArray ==
    /\ GivenItems # <<>>
    /\ AllNumberPairs(GivenItems)
    /\ \A i \in 1..(Len(GivenPoints) - 1) :
          GivenPoints[i].x < GivenPoints[i + 1].x /\ GivenPoints[i].y < GivenPoints[i + 1].y
    /\ \A i \in 1..Len(GivenPoints) : GivenPoints[i].y >= 0 /\ GivenPoints[i].y <= Num(100)

LooksFractional(y) == y > 0 /\ y <= Num(1)

GivenBins == SortByX(FinitePairs(GivenItems))

\* C6: for cumulative input (y non-decreasing along x) the scale is decided
\* once, from the final y, and applied to every point: times 100 when the
\* final y is <= 1, unchanged otherwise (then clamped into [0, 100]).
C6_ScaleDecidedOnce ==
    (/\ builder \in {"parseHalfPPR", "cdfPairsToPercentSeries"}
     /\ series.tag = "series"
     /\ StrictlyAscendingX(GivenBins)
     /\ nonDecreasing(GivenBins)) =>
        LET scale == IF GivenBins[Len(GivenBins)].y <= Num(1) THEN 100 ELSE 1
        IN series.pts =
              [i \in 1..Len(GivenBins) |->
                  [x |-> GivenBins[i].x, y |-> Clamp(GivenBins[i].y * scale)]]

\* C7: no builder throws, whatever the payload, and a payload in which no
\* pair with two finite coordinates remains gives null.
C7_NeverThrows ==
    builder # "none" =>
        /\ series.tag # "throw"
        /\ (builder # "ecdfFromValues" /\ GivenBins = <<>>) => series.tag = "null"
        /\ (builder = "ecdfFromValues" /\ FiniteSamples = {}) => series.tag = "null"

\* C8: every y of a returned series lies in [0, 100].
C8_YWithinPercentRange ==
    (builder # "none" /\ series.tag = "series") =>
        \A i \in 1..Len(series.pts) : series.pts[i].y >= 0 /\ series.pts[i].y <= Num(100)

\* C9: the y of a returned series never decreases along the series (stated
\* for cumulative input: pairs of distinct x whose y are in [0, 100] and
\* non-decreasing along x).
C9_YNonDecreasing ==
    (/\ builder \in {"parseHalfPPR", "cdfPairsToPercentSeries"}
     /\ series.tag = "series"
     /\ StrictlyAscendingX(GivenBins)
     /\ nonDecreasing(GivenBins)
     /\ \A i \in 1..Len(GivenBins) : GivenBins[i].y >= 0 /\ GivenBins[i].y <= Num(100)) =>
        \A i \in 1..(Len(series.pts) - 1) : series.pts[i].y <= series.pts[i + 1].y

\* C10: a returned series is in ascending x and no two of its points share
\* an x.
C10_AscendingDistinctX ==
    (builder \in {"parseHalfPPR", "cdfPairsToPercentSeries", "ecdfFromValues"}
     /\ series.tag = "series") =>
        \A i \in 1..(Len(series.pts) - 1) : series.pts[i].x < series.pts[i + 1].x

-----------------------------------------------------------------------------
(* Properties of halfPprSeriesFromProjection (SpecProjection) *)

HasFiniteSample(v) ==
    v.t = "array" /\ \E i \in 1..Len(v.items) : SampleIsFinite(v.items[i])

\* the raw sample lists the projection carries that hold a finite sample
RawListsOf(proj) ==
    {ProjectionField(proj, RawKeys[i]) : i \in {j \in 1..4 :
        HasFiniteSample(ProjectionField(proj, RawKeys[j]))}}

BinnedOf(proj) == ProjectionField(proj, "chart_source_half_ppr")

BinnedUsable(proj) ==
    BinnedOf(proj).t = "array" /\ \E i \in 1..Len(BinnedOf(proj).items) :
        IsFinitePair(BinnedOf(proj).items[i])

\* C11: a projection that carries a raw sample list with a finite sample
\* gives the ECDF of raw samples, whatever its binned array; a projection
\* without one gives the series built from the binned array, and null when
\* that array is unusable too.
C11_RawSamplesFirst ==
    (builder = "halfPprSeriesFromProjection" /\ payload.t = "projection") =>
        /\ RawListsOf(payload) # {} =>
              series \in {ecdfFromValues(v) : v \in RawListsOf(payload)}
        /\ (RawListsOf(payload) = {} /\ BinnedUsable(payload)) =>
              /\ series.tag = "series"
              /\ series = cdfPairsToPercentSeries(BinnedOf(payload))
        /\ (RawListsOf(payload) = {} /\ ~BinnedUsable(payload)) => series.tag = "null"

\* the same, for projections that carry at most one raw field and whose
\* binned array holds no null element
AtMostOneRawField(proj) ==
    Cardinality({i \in 1..4 : ProjectionField(proj, RawKeys[i]).t # "undefined"}) <= 1

NoNullElement(v) == v.t = "array" => \A i \in 1..Len(v.items) : ~ReadThrows(v.items[i])

C11_RawSamplesFirstSingleList ==
    (/\ builder = "halfPprSeriesFromProjection"
     /\ payload.t = "projection"
     /\ AtMostOneRawField(payload)
     /\ NoNullElement(BinnedOf(payload))) => C11_RawSamplesFirst

-----------------------------------------------------------------------------
(* Properties of the axis planning (SpecAxis) *)

\* the merged values of the rows: every non-null A or B
MergedValues ==
    {chartData[i].A.v : i \in {j \in Rows : ~chartData[j].A.nil}} \cup
    {chartData[i].B.v : i \in {j \in Rows : ~chartData[j].B.nil}}

IsMultipleOf(v, k) == v % (k * YScale) = 0

\* C17: the y-axis maximum is 20 when no merged value exceeds 20 (no rows
\* included); otherwise it is the smallest multiple of 10 that is at least
\* the largest merged value; no merged value exceeds the y-axis maximum.
C17_YAxisExtension ==
    revision = "window30" =>
        /\ (\A v \in MergedValues : v <= Num(20)) => yMax = Num(20)
        /\ (\E v \in MergedValues : v > Num(20)) =>
              /\ IsMultipleOf(yMax, 10)
              /\ \A v \in MergedValues : v <= yMax
              /\ \E v \in MergedValues : yMax - Num(10) < v
        /\ \A v \in MergedValues : v <= yMax

C17_Witness ==
    /\ revision = "window30"
    /\ Len(chartData) >= 2
    /\ yMax = Num(30)
    /\ Tenths(205) \in MergedValues
    /\ Tenths(1) \in MergedValues

\* C18: in every width class the x ticks start with 0 and end with the x-axis
\* maximum, and the y ticks start with 0 and end with the y-axis maximum.
C18_TicksIncludeBothEnds ==
    revision = "window30" =>
        /\ xTicks # <<>>
        /\ xTicks[1] = Num(0)
        /\ xTicks[Len(xTicks)] = xMax
        /\ yTicks # <<>>
        /\ yTicks[1] = Num(0)
        /\ yTicks[Len(yTicks)] = yMax

C18_Witness ==
    /\ revision = "window30"
    /\ windowWidth < 480
    /\ chartData # <<>>
    /\ xMax = Num(10)
    /\ xTicks = <<Num(0), Num(6), Num(10)>>
    /\ yMax = Num(50)

EvenlySpaced(ticks) ==
    \A i \in 1..(Len(ticks) - 2) : ticks[i + 1] - ticks[i] = ticks[i + 2] - ticks[i + 1]

\* C19: in every width class any two consecutive ticks of an axis differ by
\* the same increment, on the x axis and on the y axis.
C19_TicksEvenlySpaced ==
    revision = "window30" => EvenlySpaced(xTicks) /\ EvenlySpaced(yTicks)

\* C20: every row of the merged dataset lies between the x-axis minimum and
\* the x-axis maximum computed from that dataset.
C20_DomainCoversRows ==
    revision \in {"stephold", "window30"} =>
        \A i \in Rows : xMin <= chartData[i].x /\ chartData[i].x <= xMax

C20_Witness ==
    /\ revision = "window30"
    /\ Len(chartData) >= 2
    /\ chartData[Len(chartData)].x = Num(28)
    /\ xMax = Num(30)
    /\ \E i \in 1..Len(PtsOf(aSeries)) : PtsOf(aSeries)[i].x = Num(31)

-----------------------------------------------------------------------------
(* Properties of the flattener and the stat resolver (SpecResolver) *)

FlatIndexes == 1..Len(flat)

\* the lower-cased key of a flattened entry matches every include pattern and
\* no exclude pattern
Qualifies(i) ==
    /\ \A p \in 1..Len(rule.include) : test(rule.include[p], toLowerCase(flat[i].k))
    /\ \A p \in 1..Len(rule.exclude) : ~test(rule.exclude[p], toLowerCase(flat[i].k))

MatchesIncludes(i) ==
    \A p \in 1..Len(rule.include) : test(rule.include[p], toLowerCase(flat[i].k))

\* C12: a returned value is the value of a flattened key whose lower-cased
\* form matches every include pattern and no exclude pattern; the result is
\* undefined when no flattened key qualifies or the record is null or not an
\* object.
C12_ResolverSelection ==
    rule.t = "rule" =>
        /\ resolved.t # "undefined" => \E i \in FlatIndexes : Qualifies(i) /\ resolved = flat[i].v
        /\ (~\E i \in FlatIndexes : Qualifies(i)) => resolved.t = "undefined"
        /\ record.t \notin {"record", "array"} => resolved.t = "undefined"

C12_Witness ==
    /\ rule.t = "rule"
    /\ record.t = "record"
    /\ rule.exclude # <<>>
    /\ resolved.t = "number"
    /\ \E i, j \in FlatIndexes :
          /\ i < j
          /\ MatchesIncludes(i) /\ ~Qualifies(i)
          /\ Qualifies(j)
          /\ flat[i].v.t = "string"

\* the leaves of a record: the values that are not plain objects, each with
\* the list of keys that leads to it
RECURSIVE LeafPaths(_, _)
LeafPaths(v, path) ==
    IF v.t = "record"
    THEN UNION {LeafPaths(v.entries[i].v, Append(path, v.entries[i].k)) : i \in 1..Len(v.entries)}
    ELSE {[path |-> path, v |-> v]}

RECURSIVE DotJoin(_)
DotJoin(path) ==
    IF path = <<>> THEN <<>>
    ELSE IF Len(path) = 1 THEN path[1]
    ELSE path[1] \o <<".">> \o DotJoin(Tail(path))

HeldUnderPath(leaf) ==
    \E i \in FlatIndexes : flat[i].k = DotJoin(leaf.path) /\ flat[i].v = leaf.v

HasNestedObject(v) == \E i \in 1..Len(v.entries) : v.entries[i].v.t = "record"

\* C13: every leaf of a record of nested objects is held under its
\* dot-joined path, distinct leaves have distinct flattened keys, no leaf is
\* lost or overwritten, and a record without nested objects flattens to
\* itself.
C13_FlattenerUniqueness ==
    (rule.t = "rule" /\ record.t = "record") =>
        LET leaves == LeafPaths(record, <<>>)
        IN /\ \A l \in leaves : HeldUnderPath(l)
           /\ \A l1, l2 \in leaves : l1.path # l2.path => DotJoin(l1.path) # DotJoin(l2.path)
           /\ Len(flat) = Cardinality({l.path : l \in leaves})
           /\ ~HasNestedObject(record) => flat = record.entries

\* every key of the record, at every depth, is non-empty and holds no dot
PlainKey(k) == k # <<>> /\ \A c \in 1..Len(k) : k[c] # "."

RECURSIVE PlainKeys(_)
PlainKeys(v) ==
    v.t = "record" =>
        \A i \in 1..Len(v.entries) : PlainKey(v.entries[i].k) /\ PlainKeys(v.entries[i].v)

C13_FlattenerUniquenessPlainKeys ==
    (rule.t = "rule" /\ record.t = "record" /\ PlainKeys(record)) => C13_FlattenerUniqueness

\* C14: every value of the flattened mapping is a number, a string, a
\* boolean or null; no container is retained.
C14_FlattenedValuesScalar ==
    (rule.t = "rule" /\ record.t = "record" /\ PlainKeys(record)) =>
        \A i \in FlatIndexes : flat[i].v.t \in {"number", "string", "boolean", "null"}

IsPrefixOf(p, k) == Len(p) <= Len(k) /\ SubSeq(k, 1, Len(p)) = p

\* C15: an array at any depth is held whole under its dotted key, and no
\* flattened key continues the path of an array with an index.
C15_ArraysHeldWhole ==
    (rule.t = "rule" /\ record.t = "record") =>
        \A l \in {q \in LeafPaths(record, <<>>) : q.v.t = "array"} :
            /\ HeldUnderPath(l)
            /\ \A i \in FlatIndexes : ~IsPrefixOf(DotJoin(l.path) \o <<".">>, flat[i].k)

C15_ArraysHeldWholePlainKeys ==
    (rule.t = "rule" /\ record.t = "record" /\ PlainKeys(record)) => C15_ArraysHeldWhole

\* a string that is a numeral: digits, possibly inside blanks
IsNumeral(chars) ==
    Trim(chars) # <<>> /\ \A i \in 1..Len(Trim(chars)) : IsDigit(Trim(chars)[i])

\* C16: asNumberIfPossible gives the number when its input parses as a finite
\* number and the input itself otherwise; non-numeric strings (the empty
\* string included), null and undefined pass through unchanged.
C16_NumericCoercion ==
    (rule.t = "rule" /\ PlainKeys(record)) =>
        /\ resolved.t \in {"null", "undefined", "number"} => tableValue = resolved
        /\ (resolved.t = "string" /\ IsNumeral(resolved.s)) =>
              tableValue = JNum(Num(DecimalValue(Trim(resolved.s))))
        /\ (resolved.t = "string" /\ ~IsNumeral(resolved.s)) => tableValue = resolved

-----------------------------------------------------------------------------
(* Field order of halfPprSeriesFromProjection (SpecProjection) *)

\* the raw fields of the projection that hold a non-empty list
NonEmptyRawFields(proj) ==
    {i \in 1..4 : /\ ProjectionField(proj, RawKeys[i]).t = "array"
                  /\ ProjectionField(proj, RawKeys[i]).items # <<>>}

FirstNonEmptyRaw(proj) ==
    ProjectionField(proj,
        RawKeys[CHOOSE i \in NonEmptyRawFields(proj) : \A j \in NonEmptyRawFields(proj) : i <= j])

\* C30: the series is the ECDF of the first raw field, in the order
\* raw_values_half_ppr, samples_half_ppr, total_score_half_ppr_samples,
\* raw_total_score_half_ppr, that holds a non-empty list; an empty list in an
\* earlier field does not hide a later field.
C30_FirstNonEmptyRawField ==
    (/\ builder = "halfPprSeriesFromProjection"
     /\ payload.t = "projection"
     /\ NonEmptyRawFields(payload) # {}
     /\ HasFiniteSample(FirstNonEmptyRaw(payload))) =>
        series = ecdfFromValues(FirstNonEmptyRaw(payload))

-----------------------------------------------------------------------------
(* Preference and tie-break of the stat resolver (SpecResolver) *)

Candidates == {i \in FlatIndexes : Qualifies(i)}

ScalarCandidates ==
    {i \in Candidates : flat[i].v.t \in {"null", "undefined", "string", "number", "boolean"}}

FirstOf(S) == CHOOSE i \in S : \A j \in S : i <= j

\* C25: among the flattened keys that pass the filter the resolver returns
\* the value of the first key whose value is scalar when there is one, and of
\* the first candidate otherwise; a later candidate of equal score never
\* replaces an earlier one.
C25_FirstScalarCandidate ==
    (rule.t = "rule" /\ record.t \in {"record", "array"} /\ Candidates # {}) =>
        IF ScalarCandidates # {} THEN resolved = flat[FirstOf(ScalarCandidates)].v
        ELSE resolved = flat[FirstOf(Candidates)].v

C25_Witness ==
    /\ rule.t = "rule"
    /\ record.t = "record"
    /\ rule.include # <<>>
    /\ Cardinality(Candidates) = 2
    /\ Cardinality(ScalarCandidates) = 2
    /\ flat[1].v # flat[2].v
    /\ resolved = flat[1].v

-----------------------------------------------------------------------------
(* The x-axis maximum (SpecAxis) *)

\* the largest x of a row in which A or B is non-null and above 0.1; 0 when
\* there is none
LargestMeaningfulX ==
    LET xs == {Num(0)} \cup
              {chartData[i].x : i \in {j \in Rows :
                  \/ ~chartData[j].A.nil /\ chartData[j].A.v > Tenths(1)
                  \/ ~chartData[j].B.nil /\ chartData[j].B.v > Tenths(1)}}
    IN CHOOSE m \in xs : \A x \in xs : x <= m

\* the smallest multiple of 2 that is >= v, for v up to 40
EvenAtLeast(v) ==
    LET evens == {Num(2 * k) : k \in 0..20}
    IN CHOOSE e \in evens : e >= v /\ \A f \in evens : f >= v => e <= f

\* C26: the x-axis minimum is 0 and the maximum is min(30, smallest multiple
\* of 2 that is >= m + 2), m the largest x of a row with a side above 0.1 and
\* 0 when no row qualifies.
C26_XAxisMax ==
    revision = "window30" =>
        /\ xMin = Num(0)
        /\ xMax = Min2(Num(30), EvenAtLeast(LargestMeaningfulX + Num(2)))
        /\ xMax <= Num(30)

\* C26 as amended: the same for a dataset with rows; 26 for one without
C26_XAxisMaxOrDefault ==
    revision = "window30" =>
        /\ xMin = Num(0)
        /\ chartData # <<>> => xMax = Min2(Num(30), EvenAtLeast(LargestMeaningfulX + Num(2)))
        /\ chartData = <<>> => xMax = Num(26)
        /\ xMax <= Num(30)

C26_Witness ==
    /\ revision = "window30"
    /\ Len(chartData) = 1
    /\ chartData[1].x = Tenths(75)
    /\ xMax = Num(10)

-----------------------------------------------------------------------------
(* The post-filter of the windowed merger (SpecMerge) *)

\* the value of a series at x: the y of its first point with that x
FirstAt(s, x) ==
    LET pts == PtsOf(s)
        idx == {i \in 1..Len(pts) : pts[i].x = x}
    IN IF idx = {} THEN Nil ELSE Some(pts[CHOOSE i \in idx : \A j \in idx : i <= j].y)

AboveThreshold(o) == ~o.nil /\ o.v > Tenths(1)

FilteredRows ==
    /\ \A i \in Rows : AboveThreshold(chartData[i].A) \/ AboveThreshold(chartData[i].B)
    /\ \A x \in UnionXs(aSeries, bSeries) :
          (/\ x >= 0
           /\ x <= Num(30)
           /\ AboveThreshold(FirstAt(aSeries, x)) \/ AboveThreshold(FirstAt(bSeries, x)))
          => \E i \in Rows : chartData[i].x = x

\* C27: every row the windowed merger returns has a side that is non-null and
\* above 0.1, every union x inside the window at which a side is above 0.1 is
\* kept as a row, and the merge leaves the two input series as they were.
C27_PostFilter ==
    [][revision' = "window30" =>
          /\ FilteredRows'
          /\ aSeries' = aSeries
          /\ bSeries' = bSeries]_vars

\* a row was dropped and a row was kept
C27_Witness ==
    /\ revision = "window30"
    /\ chartData # <<>>
    /\ aSeries.tag = "series"
    /\ bSeries.tag = "series"
    /\ \E x \in UnionXs(aSeries, bSeries) :
          x >= 0 /\ x <= Num(30) /\ ~\E i \in Rows : chartData[i].x = x
    /\ \E i \in Rows : chartData[i].A.nil /\ AboveThreshold(chartData[i].B)

-----------------------------------------------------------------------------
(* The probability-mass branch of parseHalfPPR (SpecBuilder) *)

\* the given array was read without an exception and its y values, in
\* ascending x, are not non-decreasing
GivenIsMass ==
    /\ builder = "parseHalfPPR"
    /\ \A i \in 1..Len(GivenItems) : GivenItems[i].t \notin {"null", "undefined"}
    /\ \E i \in 2..Len(GivenBins) : GivenBins[i].y < GivenBins[i - 1].y

MassTotal == SeqSum([i \in 1..Len(GivenBins) |-> GivenBins[i].y])

MassUpTo(k) == SeqSum([i \in 1..k |-> GivenBins[i].y])

InPercentRange(v) == IF v < 0 THEN 0 ELSE IF v > Num(100) THEN Num(100) ELSE v

\* C24: when the y values in ascending x are not non-decreasing, the k-th
\* output y is the sum of the first k masses, times 100 when the sum of all
\* masses is <= 1 and times 1 otherwise, clamped into [0, 100]; there is one
\* output point per pair with finite coordinates.
C24_MassBranch ==
    GivenIsMass =>
        /\ series.tag = "series"
        /\ Len(series.pts) = Len(GivenBins)
        /\ \A k \in 1..Len(GivenBins) :
              /\ series.pts[k].x = GivenBins[k].x
              /\ series.pts[k].y =
                    InPercentRange(MassUpTo(k) * (IF MassTotal <= Num(1) THEN 100 ELSE 1))

C24_Witness ==
    /\ GivenIsMass
    /\ Len(GivenItems) = 2
    /\ GivenBins[1].y = Tenths(5)
    /\ GivenBins[2].y = Num(0)
    /\ GivenItems[1].x.n > GivenItems[2].x.n
    /\ series.pts[2].y = Num(50)

-----------------------------------------------------------------------------
(* Properties of analytics and the consent banner (SpecAnalytics) *)

\* C21: nothing is handed to ReactGA by the track functions unless the
\* stored consent is 'true' at the moment of the call; before any choice and
\* after Decline nothing is sent.
C21_NoHitWithoutConsent ==
    [][\A i \in 1..Len(hits') :
          i > Len(hits) => (consentStored = "true" /\ hits'[i].consent = "true")]_vars

C21_Witness ==
    /\ consentStored = "true"
    /\ loads = 2
    /\ Len(hits) >= 3
    /\ hits[1].kind = "pageview"
    /\ hits[1].load = 2
    /\ \E i \in 1..Len(hits) : hits[i].kind = "Player Comparison (players)"

\* C22: on mount the banner is shown exactly when no consent value is
\* stored; Accept stores 'true', Decline stores 'false', and each hides the
\* banner; once a choice is stored the banner is not shown on a later load.
C22_Banner ==
    /\ lastHandler = "load" => (showBanner <=> consentStored = "absent")
    /\ lastHandler = "handleAccept" => (consentStored = "true" /\ ~showBanner)
    /\ lastHandler = "handleDecline" => (consentStored = "false" /\ ~showBanner)
    /\ consentStored # "absent" => ~showBanner

C22_Witness ==
    /\ lastHandler = "load"
    /\ loads = 3
    /\ consentStored = "false"
    /\ ~showBanner
    /\ hits = <<>>

PageViewOfLoad(n) == \E i \in 1..Len(hits) : hits[i].kind = "pageview" /\ hits[i].load = n

\* C23: in every load in which the stored consent is 'true' at some point,
\* a page view of that load is sent.
C23_PageViewPerConsentingLoad ==
    (loads > 0 /\ consentStored = "true") => PageViewOfLoad(loads)

-----------------------------------------------------------------------------
(* Properties of the load-projections effect (SpecLoader) *)

NoneInFlight == \A r \in DOMAIN requests : requests[r].status # "pending"

\* a step in which a request of a superseded run settles
StaleCompletion ==
    \E r \in DOMAIN requests :
        /\ requests[r].status = "pending"
        /\ requests[r].ignore
        /\ requests'[r].status # "pending"

\* projA and projB are what was fetched for the selection
ShowsSelection ==
    IF playerA = "" /\ playerB = ""
    THEN projA = "null" /\ projB = "null"
    ELSE /\ requests # <<>>
         /\ LET last == requests[Len(requests)]
            IN  /\ last.a = playerA
                /\ last.b = playerB
                /\ last.status = "ok"
                /\ projA = last.pA
                /\ projB = last.pB
                /\ projA \in Responses(playerA)
                /\ projB \in Responses(playerB)

Settled == (NoneInFlight /\ projErr = "") => ShowsSelection

\* C28: a response to a request issued for a superseded selection writes
\* none of projA, projB, projErr, loadingProj; whenever no request is in
\* flight and projErr is empty, projA and projB are the projections fetched
\* for the selected a and b (null for an unselected side).
C28_StaleResponsesDiscarded ==
    [][/\ StaleCompletion => UNCHANGED <<projA, projB, projErr, loadingProj>>
       /\ Settled']_vars

C28_Witness ==
    /\ Len(requests) = 3
    /\ NoneInFlight
    /\ requests[1].a = "p1" /\ requests[1].b = "p2" /\ requests[1].ignore
    /\ requests[1].status = "ok" /\ requests[1].pA = "p1"
    /\ requests[2].status = "failed" /\ requests[2].ignore
    /\ requests[3].status = "ok" /\ ~requests[3].ignore
    /\ playerA = "p2" /\ playerB = ""
    /\ projA = "p2" /\ projB = "null"
    /\ projErr = ""

\* C29: once every outstanding request has completed or failed, loadingProj
\* is false.
C29_LoadingDoesNotStick == NoneInFlight => loadingProj = FALSE

=============================================================================
